---- MODULE Spec2Model ----
(***************************************************************************)
(* Model of the astrological calculation core: AstrologyCalculator         *)
(* (core.ts), AstronomicalCalculator (astronomy.ts), DashaCalculator       *)
(* (dasha.ts), TransitCalculator (transit.ts), HouseCalculator (houses.ts) *)
(* and PlanetaryPositions (planetaryPositions.ts).                         *)
(*                                                                         *)
(* JavaScript numbers are modelled as exact rationals [num, den] in lowest *)
(* terms with den > 0, so decimal literals such as 13.333333 keep their    *)
(* exact value and 13 + 1/3 is the exact third.  IEEE rounding is not      *)
(* modelled.                                                               *)
(***************************************************************************)
EXTENDS Integers, Sequences, FiniteSets, TLC

VARIABLES
    pc,           \* "idle", a position inside a method, "returned" or "threw"
    call,         \* the invocation made: [fn |-> name, args |-> record of arguments]
    ret,          \* the value the invocation returned, as a record
    dateFns,      \* which date-fns behaviour for a fractional addYears amount
    balance,      \* calculateDashaPeriods: const balance
    startLord,    \* calculateDashaPeriods: const startLord
    currentDate,  \* calculateDashaPeriods: let currentDate
    foundStart,   \* calculateDashaPeriods: let foundStart
    i,            \* calculateDashaPeriods: loop counter
    dashas,       \* calculateDashaPeriods: const dashas (the array pushed to)
    natalDate,    \* calculateAllTransits: const birthDate
    entryIndex,   \* calculateAllTransits: position in Object.entries(birthChart.planets)
    transits,     \* calculateAllTransits: const transits, as its entries in order
    globals,      \* calculatePlacidusHouses: which of its free identifiers resolve
    RAMC,         \* calculatePlacidusHouses: const RAMC
    semiArc,      \* calculateIntermediate: the angle a, for each of its two fractions
    ascendantCusp,\* calculatePlacidusHouses: const ascendant
    callIndex,    \* calculatePlacidusHouses: which calculateIntermediate call is next
    houses        \* calculatePlacidusHouses: const houses

vars ==
    <<pc, call, ret, dateFns, balance, startLord, currentDate, foundStart, i, dashas,
      natalDate, entryIndex, transits, globals, RAMC, semiArc, ascendantCusp, callIndex,
      houses>>

houseVars == <<globals, RAMC, semiArc, ascendantCusp, callIndex, houses>>

dashaVars == <<dateFns, balance, startLord, currentDate, foundStart, i, dashas>>

transitVars == <<natalDate, entryIndex, transits>>

-----------------------------------------------------------------------------
(* Exact rational arithmetic standing for JavaScript number arithmetic.     *)

Abs(x) == IF x < 0 THEN -x ELSE x

RECURSIVE GCD(_, _)
GCD(a, b) == IF b = 0 THEN a ELSE GCD(b, a % b)

Rat(n, d) ==
    LET s == IF d < 0 THEN -1 ELSE 1
        g == GCD(Abs(n), Abs(d))
    IN  [num |-> (s * n) \div g, den |-> (s * d) \div g]

Num(n) == [num |-> n, den |-> 1]

RAdd(a, b) ==
    LET g == GCD(a.den, b.den)
        l == (a.den \div g) * b.den
    IN  Rat(a.num * (l \div a.den) + b.num * (l \div b.den), l)

RNeg(a) == [num |-> -a.num, den |-> a.den]

RSub(a, b) == RAdd(a, RNeg(b))

RMul(a, b) ==
    LET g1 == GCD(Abs(a.num), b.den)
        g2 == GCD(Abs(b.num), a.den)
    IN  Rat((a.num \div g1) * (b.num \div g2), (a.den \div g2) * (b.den \div g1))

\* a / b for b # 0
RDiv(a, b) == RMul(a, Rat(b.den, b.num))

\* Math.floor
Floor(a) == a.num \div a.den

\* a < b and a <= b, compared by integer part and then by fractional part
RLt(a, b) ==
    LET fa == Floor(a)
        fb == Floor(b)
    IN  \/ fa < fb
        \/ fa = fb /\ (a.num - fa * a.den) * b.den < (b.num - fb * b.den) * a.den

RLe(a, b) == a = b \/ RLt(a, b)

\* truncation toward zero (ToIntegerOrInfinity, and the quotient of JS %)
Trunc(a) == IF a.num < 0 THEN -((-a.num) \div a.den) ELSE a.num \div a.den

\* the JS remainder operator a % b: the result takes the sign of a
RMod(a, b) == RSub(a, RMul(b, Num(Trunc(RDiv(a, b)))))

\* the JS remainder operator on integers
JsMod(a, b) == IF a < 0 THEN -((-a) % b) ELSE a % b

\* a negative double of magnitude below 2^-45, such as -1e-20: the one kind
\* of number whose rounding is modelled
NegTiny == [tiny |-> -1]

\* NegTiny + b for a double b of magnitude at least 1: b is the nearest double
TinyPlus(b) == b

-----------------------------------------------------------------------------
(* AstrologyCalculator (core.ts)                                            *)

NAKSHATRA_SPAN == Rat(13333333, 1000000)

PADA_SPAN == Rat(3333333, 1000000)

SIGN_SPAN == Num(30)

\* ((angle % 360) + 360) % 360; NegTiny % 360 is NegTiny
Astrology_normalizeAngle(angle) ==
    IF angle = NegTiny THEN RMod(TinyPlus(Num(360)), Num(360))
    ELSE RMod(RAdd(RMod(angle, Num(360)), Num(360)), Num(360))

calculateNakshatra(longitude) ==
    LET normalizedLongitude == Astrology_normalizeAngle(longitude)
        nakshatraIndex == Floor(RDiv(normalizedLongitude, NAKSHATRA_SPAN))
        nakshatra == nakshatraIndex + 1
        degreeInNakshatra == RMod(normalizedLongitude, NAKSHATRA_SPAN)
        pada == Floor(RDiv(degreeInNakshatra, PADA_SPAN)) + 1
    IN  [nakshatra |-> nakshatra, pada |-> pada]

calculateSign(longitude) ==
    Floor(RDiv(Astrology_normalizeAngle(longitude), SIGN_SPAN)) + 1

-----------------------------------------------------------------------------
(* AstronomicalCalculator (astronomy.ts)                                    *)

J2000 == Num(2451545)

\* Math.sign
Sign(a) == IF a.num > 0 THEN 1 ELSE IF a.num < 0 THEN -1 ELSE 0

\* date: the local-time fields a JS Date reports, month 0-based as getMonth()
calculateJulianDate(date) ==
    LET y == date.year
        m == date.month + 1
        d == date.date
        h == RAdd(RAdd(Num(date.hours), Rat(date.minutes, 60)), Rat(date.seconds, 3600))
        jd1 == Num(367 * y - ((7 * (y + ((m + 9) \div 12))) \div 4))
        jd2 == RAdd(jd1, RAdd(RAdd(Num(((275 * m) \div 9) + d), Rat(17210135, 10)),
                              RDiv(h, Num(24))))
        jd3 == RSub(jd2, RAdd(RMul(Rat(1, 2),
                                   Num(Sign(RSub(Num(100 * y + m), Rat(1900025, 10))))),
                              Rat(1, 2)))
    IN  jd3

\* calculateJulianDate of page.tsx; date: the UTC fields of the Date
Page_calculateJulianDate(date) ==
    LET y == date.year
        m == date.month + 1
        d == date.date
        h == RAdd(RAdd(Num(date.hours), Rat(date.minutes, 60)), Rat(date.seconds, 3600))
        jd1 == Num(367 * y - ((7 * (y + ((m + 9) \div 12))) \div 4))
    IN  RAdd(jd1, RAdd(RAdd(Num(((275 * m) \div 9) + d), Rat(17210135, 10)),
                       RDiv(h, Num(24))))

\* angle - 360 * Math.floor(angle / 360); Math.floor(NegTiny / 360) is -1
Astronomy_normalizeAngle(angle) ==
    IF angle = NegTiny THEN TinyPlus(Num(360))
    ELSE RSub(angle, Num(360 * Floor(RDiv(angle, Num(360)))))

-----------------------------------------------------------------------------
(* date-fns, as dasha.ts uses it.  A date is [year, month, date] with the   *)
(* month 0-based as in a JS Date; the time of day is carried along          *)
(* unchanged by every operation below and dropped by format.               *)

IsLeapYear(y) == (y % 4 = 0 /\ y % 100 # 0) \/ y % 400 = 0

\* month 0-based
DaysInMonth(y, m) ==
    IF m = 1 THEN (IF IsLeapYear(y) THEN 29 ELSE 28)
    ELSE IF m \in {3, 5, 8, 10} THEN 30 ELSE 31

\* addMonths(date, amount) for an integer amount: the day of the month is kept
\* unless the desired month is shorter, and then it is that month's last day
addMonths(date, amount) ==
    IF amount = 0 THEN date
    ELSE LET desired == date.year * 12 + date.month + amount
             y == desired \div 12
             m == desired % 12
             daysInMonth == DaysInMonth(y, m)
         IN  [year |-> y, month |-> m,
              date |-> IF date.date >= daysInMonth THEN daysInMonth ELSE date.date]

\* addYears(date, amount) is addMonths(date, amount * 12).  For a fractional
\* amount date-fns 2.x first truncates the amount to whole years; the other
\* major versions pass amount * 12 on and Date.setMonth truncates it to whole
\* months.  The variable dateFns says which: "truncYears" or "truncMonths".
addYears(date, amount) ==
    IF dateFns = "truncYears"
    THEN addMonths(date, Trunc(amount) * 12)
    ELSE addMonths(date, Trunc(RMul(amount, Num(12))))

\* format(date, 'yyyy-MM-dd'): the three numbers printed, the month 1-based
format(date) == [yyyy |-> date.year, MM |-> date.month + 1, dd |-> date.date]

-----------------------------------------------------------------------------
(* DashaCalculator (dasha.ts)                                               *)

\* mutant: mars allotted 6 years instead of 7
DASHA_YEARS_Short ==
    [sun |-> 6, moon |-> 10, mars |-> 6, rahu |-> 18, jupiter |-> 16,
     saturn |-> 19, mercury |-> 17, ketu |-> 7, venus |-> 20]

DASHA_YEARS ==
    [sun |-> 6, moon |-> 10, mars |-> 7, rahu |-> 18, jupiter |-> 16,
     saturn |-> 19, mercury |-> 17, ketu |-> 7, venus |-> 20]

NAKSHATRA_LORDS ==
    <<"ketu", "venus", "sun", "moon", "mars", "rahu", "jupiter", "saturn", "mercury">>

\* array[index] for a 0-based index; out of range reads undefined
ArrayGet(array, index) ==
    IF index \in 0..(Len(array) - 1) THEN array[index + 1] ELSE "undefined"

\* Array.prototype.indexOf, 0-based
IndexOf(array, x) ==
    IF \E k \in 1..Len(array) : array[k] = x
    THEN (CHOOSE k \in 1..Len(array) : array[k] = x /\ \A l \in 1..(k - 1) : array[l] # x) - 1
    ELSE -1

\* mutant: the 1-based nakshatra number used as the 0-based index
Dasha_getNakshatraLord_OffByOne(nakshatra) == ArrayGet(NAKSHATRA_LORDS, JsMod(nakshatra, 9))

Dasha_getNakshatraLord(nakshatra) == ArrayGet(NAKSHATRA_LORDS, JsMod(nakshatra - 1, 9))

\* mutant: the elapsed share of the nakshatra instead of the remaining share
calculateDashaBalance_Elapsed(nakshatra, degrees) ==
    LET lord == Dasha_getNakshatraLord(nakshatra)
        totalYears == Num(DASHA_YEARS[lord])
        nakshatraSpan == RAdd(Num(13), RDiv(Num(1), Num(3)))
    IN  RMul(RDiv(degrees, nakshatraSpan), totalYears)

calculateDashaBalance(nakshatra, degrees) ==
    LET lord == Dasha_getNakshatraLord(nakshatra)
        totalYears == Num(DASHA_YEARS[lord])
        nakshatraSpan == RAdd(Num(13), RDiv(Num(1), Num(3)))
        balanceDegrees == RSub(nakshatraSpan, degrees)
    IN  RMul(RDiv(balanceDegrees, nakshatraSpan), totalYears)

\* mutant: the share taken of 108 instead of the 120-year cycle
SubPeriodYears_Div108(years, lord) == RDiv(RMul(years, Num(DASHA_YEARS[lord])), Num(108))

\* const subPeriodYears = (years * this.DASHA_YEARS[lord]) / 120
SubPeriodYears(years, lord) == RDiv(RMul(years, Num(DASHA_YEARS[lord])), Num(120))

\* mutant: the next pass starts from endDate, before the remaining months
AntarIteration_StaleDate(lord, cur, years) ==
    LET subPeriodYears == SubPeriodYears(years, lord)
        endDate == addYears(cur, Num(Floor(subPeriodYears)))
        remainingMonths == RMul(RMod(subPeriodYears, Num(1)), Num(12))
        finalEndDate == addMonths(endDate, Floor(remainingMonths))
    IN  [period |-> [planet |-> lord,
                     startDate |-> format(cur),
                     endDate |-> format(finalEndDate),
                     years |-> subPeriodYears,
                     subPeriods |-> <<>>],
         currentDate |-> endDate]

\* one pass of the loop body of calculateAntarDasha: the sub-period pushed and
\* the date the next pass starts from
AntarIteration(lord, cur, years) ==
    LET subPeriodYears == SubPeriodYears(years, lord)
        endDate == addYears(cur, Num(Floor(subPeriodYears)))
        remainingMonths == RMul(RMod(subPeriodYears, Num(1)), Num(12))
        finalEndDate == addMonths(endDate, Floor(remainingMonths))
    IN  [period |-> [planet |-> lord,
                     startDate |-> format(cur),
                     endDate |-> format(finalEndDate),
                     years |-> subPeriodYears,
                     subPeriods |-> <<>>],
         currentDate |-> finalEndDate]

RECURSIVE AntarLoop(_, _, _, _, _)
AntarLoop(j, startIndex, cur, years, antarDashas) ==
    IF j < 9
    THEN LET lordIndex == JsMod(startIndex + j, 9)
             lord == ArrayGet(NAKSHATRA_LORDS, lordIndex)
             it == AntarIteration(lord, cur, years)
         IN  AntarLoop(j + 1, startIndex, it.currentDate, years,
                       Append(antarDashas, it.period))
    ELSE antarDashas

calculateAntarDasha(mainLord, startDate, years) ==
    AntarLoop(0, IndexOf(NAKSHATRA_LORDS, mainLord), startDate, years, <<>>)

-----------------------------------------------------------------------------
(* AstrologyCalculator.getNakshatraLord (core.ts)                           *)

Astrology_getNakshatraLord(nakshatra) ==
    LET lords == <<"ketu", "venus", "sun", "moon", "mars",
                   "rahu", "jupiter", "saturn", "mercury">>
    IN  ArrayGet(lords, JsMod(nakshatra - 1, 9))

-----------------------------------------------------------------------------
(* AstrologyCalculator (core.ts), continued                                 *)

\* Math.abs
RAbs(a) == IF a.num < 0 THEN RNeg(a) ELSE a

\* Math.round: the nearest integer, halves rounded up
MathRound(a) == Floor(RAdd(a, Rat(1, 2)))

decimalToDMS(decimal) ==
    LET degrees == Floor(decimal)
        minutesDecimal == RMul(RSub(decimal, Num(degrees)), Num(60))
        minutes == Floor(minutesDecimal)
        seconds == Floor(RMul(RSub(minutesDecimal, Num(minutes)), Num(60)))
    IN  [degrees |-> degrees, minutes |-> minutes, seconds |-> seconds]

\* mutant: the house counted from the ascendant's sign
calculateHouse_WholeSign(longitude, ascendant) ==
    ((calculateSign(longitude) - calculateSign(ascendant)) % 12) + 1

calculateHouse(longitude, ascendant) ==
    LET distance == Astrology_normalizeAngle(RSub(longitude, ascendant))
    IN  Floor(RDiv(distance, SIGN_SPAN)) + 1

\* diff <= orb || (360 - diff) <= orb
isConjunction(p1, p2, orb) ==
    LET diff == RAbs(RSub(p1.longitude, p2.longitude))
    IN  RLe(diff, Num(orb)) \/ RLe(RSub(Num(360), diff), Num(orb))

\* diff > 180 ? 360 - diff : diff
Astrology_calculateAspect(p1, p2) ==
    LET diff == RAbs(RSub(p1.longitude, p2.longitude))
    IN  IF RLt(Num(180), diff) THEN RSub(Num(360), diff) ELSE diff

getSignLord(sign) ==
    LET lords == <<"mars", "venus", "mercury", "moon", "sun", "mercury", "venus", "mars",
                   "jupiter", "saturn", "saturn", "jupiter">>
    IN  IF sign \in 1..12 THEN lords[sign] ELSE ""

\* mutant: the ends of the range earn the bonus too
DeepDegree_Inclusive(degreeInSign) == degreeInSign >= 10 /\ degreeInSign <= 20

\* degreeInSign > 10 && degreeInSign < 20
DeepDegree(degreeInSign) == degreeInSign > 10 /\ degreeInSign < 20

\* Math.min on integers
MathMin(a, b) == IF a < b THEN a ELSE b

calculatePlanetStrength(position) ==
    LET s1 == IF position.house = 1 \/ position.house = 10 THEN 20 ELSE 0
        s2 == s1 + (IF getSignLord(position.sign) = position.planet THEN 30 ELSE 0)
        s3 == s2 + (IF DeepDegree(position.degree) THEN 20 ELSE 0)
        s4 == s3 + (IF ~position.isRetrograde THEN 15 ELSE 0)
    IN  MathMin(100, s4)

exaltations ==
    [sun |-> 1, moon |-> 2, mars |-> 10, mercury |-> 6, jupiter |-> 4, venus |-> 12,
     saturn |-> 7]

\* exaltations[planet] === sign, undefined for a planet without an entry
isExalted(planet, sign) == planet \in DOMAIN exaltations /\ exaltations[planet] = sign

\* mutant: venus debilitated in its exaltation sign
debilitations_VenusPisces ==
    [sun |-> 7, moon |-> 8, mars |-> 4, mercury |-> 12, jupiter |-> 10, venus |-> 12,
     saturn |-> 1]

debilitations ==
    [sun |-> 7, moon |-> 8, mars |-> 4, mercury |-> 12, jupiter |-> 10, venus |-> 6,
     saturn |-> 1]

isDebilitated(planet, sign) == planet \in DOMAIN debilitations /\ debilitations[planet] = sign

-----------------------------------------------------------------------------
(* TransitCalculator (transit.ts).  A Date is its getTime() value, counted  *)
(* in hours instead of milliseconds.                                        *)

DAILY_MOTION ==
    [sun |-> Rat(9856, 10000), moon |-> Rat(131763, 10000), mars |-> Rat(5240, 10000),
     mercury |-> Rat(13833, 10000), venus |-> Rat(12097, 10000),
     jupiter |-> Rat(831, 10000), saturn |-> Rat(334, 10000),
     rahu |-> Rat(-529, 10000), ketu |-> Rat(-529, 10000)]

\* const oneDay = 24 * 60 * 60 * 1000 milliseconds, in hours
oneDay == 24

\* mutant: the difference keeps its sign
daysBetween_Signed(date1, date2) == MathRound(Rat(date2 - date1, oneDay))

daysBetween(date1, date2) == MathRound(RAbs(Rat(date2 - date1, oneDay)))

\* mutant: a single remainder, negative for a negative sum
TransitNormalize_SingleMod(newLongitude) == RMod(newLongitude, Num(360))

\* newLongitude = ((newLongitude % 360) + 360) % 360
TransitNormalize(newLongitude) ==
    RMod(RAdd(RMod(newLongitude, Num(360)), Num(360)), Num(360))

\* mutant: the sign is read from the natal longitude
TransitSign_Natal(birthPosition, newLongitude) == calculateSign(birthPosition.longitude)

\* const sign = AstrologyCalculator.calculateSign(newLongitude)
TransitSign(birthPosition, newLongitude) == calculateSign(newLongitude)

\* a result built afresh, without the fields of birthPosition
calculateTransitPosition_Rebuilt(birthPosition, transitDate, birthDate) ==
    [birthPosition EXCEPT !.latitude = Num(0), !.isRetrograde = FALSE]

calculateTransitPosition(birthPosition, transitDate, birthDate) ==
    LET daysDiff == daysBetween(birthDate, transitDate)
        motion == DAILY_MOTION[birthPosition.planet]
        newLongitude ==
            TransitNormalize(RAdd(birthPosition.longitude, RMul(motion, Num(daysDiff))))
        nk == calculateNakshatra(newLongitude)
        sign == TransitSign(birthPosition, newLongitude)
        dms == decimalToDMS(RMod(newLongitude, Num(30)))
    IN  [birthPosition EXCEPT
            !.longitude = newLongitude,
            !.sign = sign,
            !.nakshatra = nk.nakshatra,
            !.nakshatraPada = nk.pada,
            !.degree = dms.degrees,
            !.minutes = dms.minutes,
            !.house = calculateHouse(newLongitude, birthPosition.longitude)]

\* the value null
Null == [null |-> TRUE]

\* mutant: the difference keeps its sign
AspectAngle_Signed(pos1, pos2) == RMod(RSub(pos1.longitude, pos2.longitude), Num(360))

\* const angle = Math.abs(pos1.longitude - pos2.longitude) % 360
AspectAngle(pos1, pos2) == RMod(RAbs(RSub(pos1.longitude, pos2.longitude)), Num(360))

\* mutant: the candidates in descending order
AspectDefs_Descending(maxOrb) ==
    <<[angle |-> 180, type |-> "opposition", maxOrb |-> maxOrb],
      [angle |-> 120, type |-> "trine", maxOrb |-> maxOrb],
      [angle |-> 90, type |-> "square", maxOrb |-> maxOrb],
      [angle |-> 60, type |-> "sextile", maxOrb |-> maxOrb],
      [angle |-> 0, type |-> "conjunction", maxOrb |-> maxOrb]>>

\* const aspects = [...]
AspectDefs(maxOrb) ==
    <<[angle |-> 0, type |-> "conjunction", maxOrb |-> maxOrb],
      [angle |-> 60, type |-> "sextile", maxOrb |-> maxOrb],
      [angle |-> 90, type |-> "square", maxOrb |-> maxOrb],
      [angle |-> 120, type |-> "trine", maxOrb |-> maxOrb],
      [angle |-> 180, type |-> "opposition", maxOrb |-> maxOrb]>>

\* mutant: the orb keeps its sign
AspectOrb_Signed(angle, aspectDef) == RSub(angle, Num(aspectDef.angle))

\* const orb = Math.abs(angle - aspectDef.angle)
AspectOrb(angle, aspectDef) == RAbs(RSub(angle, Num(aspectDef.angle)))

\* for (const aspectDef of aspects) { ... }  return null
RECURSIVE AspectLoop(_, _)
AspectLoop(angle, aspects) ==
    IF aspects = <<>> THEN Null
    ELSE LET aspectDef == Head(aspects)
             orb == AspectOrb(angle, aspectDef)
         IN  IF RLe(orb, Num(aspectDef.maxOrb))
             THEN [type |-> aspectDef.type, orb |-> orb]
             ELSE AspectLoop(angle, Tail(aspects))

Transit_calculateAspect(pos1, pos2, maxOrb) ==
    AspectLoop(AspectAngle(pos1, pos2), AspectDefs(maxOrb))

-----------------------------------------------------------------------------
(* HouseCalculator (houses.ts).  The trigonometric results are not         *)
(* computed: each is drawn from values inside the range its formula has.    *)

\* an empty slot of new Array(12)
Hole == [hole |-> TRUE]

\* the number NaN
NaN == [nan |-> TRUE]

\* a + b on numbers, NaN included
JsAdd(a, b) == IF a = NaN \/ b = NaN THEN NaN ELSE RAdd(a, b)

\* angle - 360 * Math.floor(angle / 360); Math.floor(NegTiny / 360) is -1
Houses_normalizeAngle(angle) ==
    IF angle = NaN THEN NaN
    ELSE IF angle = NegTiny THEN TinyPlus(Num(360))
    ELSE RSub(angle, Num(360 * Floor(RDiv(angle, Num(360)))))

\* calculateRAMC: normalizeAngle(GMST + longitude), GMST being the sidereal
\* polynomial of the instant
calculateRAMC(GMST, longitude) == Houses_normalizeAngle(RAdd(GMST, longitude))

\* the angle in [-90, 90) with the same tangent
SameTangent(angle) ==
    IF RLt(angle, Num(90)) THEN angle
    ELSE IF RLt(angle, Num(270)) THEN RSub(angle, Num(180))
    ELSE RSub(angle, Num(360))

MaxReduction == 2

\* calculateMidheaven: toDegrees(atan2(tan(RAMC), cos(obliquity))), which is
\* atan(tan(RAMC) / cos(obliquity)): the angle with RAMC's tangent, pushed
\* away from 0 by less than 3 degrees, and returned without normalizeAngle
calculateMidheaven(ramc) ==
    LET folded == SameTangent(ramc)
    IN  {RAdd(folded, Num(Sign(folded) * reduction)) : reduction \in 0..MaxReduction}

\* calculateAscendant on a scope in which cosObl, tanLat and sinObl resolve:
\* normalizeAngle(toDegrees(atan2(y, x))), an angle in [0, 360)
calculateAscendant == {Num(0), Num(100), Rat(511, 2), Num(359)}

\* cos(latitude) = 0
SingularLatitude(latitude) == RAbs(latitude) = Num(90)

\* calculateIntermediate, lines 65-73: const a = toDegrees(Math.acos(...)),
\* an angle in [0, 180]; at a singular latitude the argument of acos is a
\* quotient of two rounding residues and a may also be NaN
SemiArc(latitude) ==
    {Num(40), Num(90), Num(170)} \cup (IF SingularLatitude(latitude) THEN {NaN} ELSE {})

\* calculateIntermediate, line 75, a being the semi-arc for this fraction
calculateIntermediate(ramc, a, cusps, houseNum, fraction) ==
    LET ra == RAdd(ramc, RMul(fraction, Num(90)))
        arc == IF a = NaN THEN NaN
               ELSE IF RLt(ra, Num(180)) THEN a ELSE RSub(Num(360), a)
    IN  [cusps EXCEPT ![houseNum] = Houses_normalizeAngle(JsAdd(ramc, arc))]

\* the six calls of lines 21-26, in order
IntermediateCalls ==
    <<[houseNum |-> 11, fraction |-> Rat(1, 3)],
      [houseNum |-> 12, fraction |-> Rat(2, 3)],
      [houseNum |-> 2, fraction |-> Rat(1, 3)],
      [houseNum |-> 1, fraction |-> Rat(2, 3)],
      [houseNum |-> 8, fraction |-> Rat(1, 3)],
      [houseNum |-> 7, fraction |-> Rat(2, 3)]>>

-----------------------------------------------------------------------------
(* PlanetaryPositions (planetaryPositions.ts)                               *)

\* the value undefined
Undefined == [undefined |-> TRUE]

\* String.prototype.toLowerCase, on the names passed
toLowerCase ==
    [sun |-> "sun", mercury |-> "mercury", venus |-> "venus", mars |-> "mars",
     jupiter |-> "jupiter", saturn |-> "saturn", earth |-> "earth", Mars |-> "mars",
     Venus |-> "venus"]

\* const terms = { mercury: MERCURY, ... }, each table by its name
PlanetTerms ==
    [mercury |-> "MERCURY", venus |-> "VENUS", mars |-> "MARS", jupiter |-> "JUPITER",
     saturn |-> "SATURN"]

getPlanetTerms(planet) ==
    LET key == toLowerCase[planet]
    IN  IF key \in DOMAIN PlanetTerms THEN [table |-> PlanetTerms[key]] ELSE Undefined

\* calculatePosition: reading terms.L_TERMS of undefined is a TypeError;
\* otherwise the series of the table are summed at T
calculatePosition(planet, T) ==
    LET terms == getPlanetTerms(planet)
    IN  IF terms = Undefined THEN [error |-> "TypeError"]
        ELSE [series |-> terms.table, T |-> T]

calculateHeliocentricCoordinates(planet, jd) ==
    LET T == RDiv(RSub(jd, Num(2451545)), Num(36525))
    IN  calculatePosition(planet, T)

\* an error thrown while either operand is computed propagates, the planet's first
calculateGeocentricPosition(planet, jd) ==
    LET planetPos == calculateHeliocentricCoordinates(planet, jd)
        earthPos == calculateHeliocentricCoordinates("earth", jd)
    IN  IF "error" \in DOMAIN planetPos THEN planetPos
        ELSE IF "error" \in DOMAIN earthPos THEN earthPos
        ELSE [planet |-> planetPos, earth |-> earthPos]

-----------------------------------------------------------------------------
(* Inputs                                                                   *)

MaxDegree == 400
MicroWindow == 1
BelowWindow == 10

WholeDegrees == {Num(n) : n \in (-MaxDegree)..MaxDegree}

\* exact multiples of 360/108 = 10/3 (every multiple of 360/27 is among them)
ThirdDegrees == {Rat(10 * k, 3) : k \in 0..108}

\* longitudes half a millionth of a degree (and odd multiples of that) on
\* either side of the multiples of 3.333333 and of 13.333333, and below 360
HalfMicroOffsets(w) == {2 * j - 1 : j \in 1..w} \cup {1 - 2 * j : j \in 1..w}

MicroDegrees ==
    {Rat(2 * k * 3333333 + o, 2000000) : k \in 1..107, o \in HalfMicroOffsets(MicroWindow)}
    \cup {Rat(2 * k * 13333333 + o, 2000000) : k \in 1..26, o \in HalfMicroOffsets(MicroWindow)}
    \cup {Rat(2 * 360000000 - (2 * j - 1), 2000000) : j \in 1..BelowWindow}

Longitudes == WholeDegrees \cup ThirdDegrees \cup MicroDegrees

FirstYear == 1899
YearSpan == 2
EpochYear == 2000

\* century years, for the leap-day rule of the Gregorian calendar
CenturyYears == {1800, 2100, 2200}

Years ==
    FirstYear..(FirstYear + YearSpan) \cup (EpochYear - 1)..(EpochYear + 1)
    \cup CenturyYears

Nakshatras == 1..27

DegreeDen == 1

\* degrees traversed in the nakshatra: a grid over [0, 360/27] and its end
Degrees ==
    {Rat(n, DegreeDen) : n \in 0..((40 * DegreeDen) \div 3)} \cup {Rat(40, 3)}

\* arguments outside the documented ranges: nakshatras above 27 and degrees
\* beyond the span of a nakshatra
MaxNakshatraArg == 28
MaxDegreesArg == 14

NakshatraArgs == 1..MaxNakshatraArg

DegreeArgs == Degrees \cup {Num(n) : n \in 14..MaxDegreesArg}

BirthYear == 2000

\* mid-month and end-of-month birth dates
BirthDates ==
    {dt \in [year : {BirthYear}, month : {0, 1}, date : {15, 31}] :
        dt.date <= DaysInMonth(dt.year, dt.month)}

DateFnsBehaviours == {"truncYears", "truncMonths"}

\* longitudes of the first body of an aspect pair, two of them outside [0, 360)
AspectBases == {Num(0), Num(15), Num(195), Num(359), Rat(719, 2), Num(-10), Num(370)}

AspectDen == 2

\* longitudes of the second body: a grid over [0, 360)
AspectLongitudes == {Rat(n, AspectDen) : n \in 0..(360 * AspectDen - 1)}

\* the default maxOrb and one wide enough for two candidates to tie
MaxOrbs == {6, 30}

\* PlanetaryPosition: a position whose derived fields agree with its longitude
PlanetaryPosition(planet, longitude, ascendant) ==
    LET nk == calculateNakshatra(longitude)
        dms == decimalToDMS(RMod(longitude, Num(30)))
    IN  [planet |-> planet,
         longitude |-> longitude,
         latitude |-> IF planet = "moon" THEN Num(5) ELSE Num(0),
         speed |-> IF planet = "ascendant" THEN Num(0) ELSE DAILY_MOTION[planet],
         isRetrograde |-> planet \in {"rahu", "ketu"},
         house |-> calculateHouse(longitude, ascendant),
         sign |-> calculateSign(longitude),
         nakshatra |-> nk.nakshatra,
         nakshatraPada |-> nk.pada,
         degree |-> dms.degrees,
         minutes |-> dms.minutes]

\* BirthChart.planets, in the order of its keys
PlanetKeys ==
    <<"ascendant", "sun", "moon", "mars", "mercury", "jupiter", "venus", "saturn",
      "rahu", "ketu">>

Bodies == {PlanetKeys[k] : k \in 2..Len(PlanetKeys)}

NatalLongitudes == {Num(0), Rat(31, 2), Num(100), Num(180), Num(271), Rat(719, 2)}

AscendantLongitudes == {Num(0), Num(10), Num(29), Num(100), Num(350)}

NatalPositions ==
    {PlanetaryPosition(planet, longitude, Num(0)) :
        planet \in Bodies, longitude \in NatalLongitudes}

\* instants, as hours: the birth, and transit dates around it
BirthTimes == {0, 6}

TransitDayOffsets == {-100, -30, -1, 0, 1, 30, 100, 365}

TransitHourOffsets == {0, 11, 12, 13}

TransitTimes == {oneDay * d + h : d \in TransitDayOffsets, h \in TransitHourOffsets}

\* BirthChart.datetime, an ISO string, as the day and hour it spells
Datetimes == [day : {0}, hour : BirthTimes]

\* new Date(birthChart.datetime)
ParseDate(datetime) == oneDay * datetime.day + datetime.hour

ChartBases == {0, 15, 200}

ChartSpacing == 37

\* a birth chart: the ascendant, and the bodies ChartSpacing degrees apart from base
BirthChart(datetime, ascendant, base) ==
    [datetime |-> datetime,
     planets |->
        [k \in 1..Len(PlanetKeys) |->
            [key |-> PlanetKeys[k],
             value |->
                IF k = 1 THEN PlanetaryPosition("ascendant", ascendant, ascendant)
                ELSE PlanetaryPosition(PlanetKeys[k],
                                       Num((base + ChartSpacing * k) % 360), ascendant)]]]

BirthCharts ==
    {BirthChart(datetime, ascendant, base) :
        datetime \in Datetimes, ascendant \in AscendantLongitudes, base \in ChartBases}

HouseLongitudes == {Num(n) : n \in 0..359} \cup {Rat(59, 2), Rat(719, 2)}

\* positions as calculatePlanetStrength reads them: the house, the sign, the
\* whole degrees within the sign, the planet and the retrograde flag
StrengthDegrees == {0, 9, 10, 11, 15, 19, 20, 21, 29}

StrengthHouses == {1, 2, 10, 12}

StrengthPositions ==
    [planet : Bodies, house : StrengthHouses, sign : 1..12, degree : StrengthDegrees,
     isRetrograde : BOOLEAN]

\* angles to normalize: multiples of 360, negatives, fractions, and NegTiny
MaxTurns == 2

NormalizeAngles ==
    {Num(360 * k) : k \in (-MaxTurns)..MaxTurns}
    \cup {Rat(n, 2) : n \in (-720 * MaxTurns)..(720 * MaxTurns)}
    \cup {Rat(-1, 1000000), Rat(359999999, 1000000), NegTiny}

\* instants as Julian dates
JulianDates == {J2000, Rat(4903091, 2), Num(2460000)}

\* geographic latitudes, the poles among them, and longitudes
Latitudes == {Num(0), Rat(143, 5), Num(90), Num(-90)}

GeoLongitudes == {Num(0), Rat(386, 5)}

\* values of the sidereal polynomial GMST of calculateRAMC
SiderealAngles == {Rat(56092, 200), Num(20), Num(-250)}

\* the free identifiers of houses.ts that resolve when it runs: the class
\* AstronomicalCalculator, which it does not import, and the names cosObl,
\* tanLat and sinObl, which calculateAscendant does not declare
GlobalScopes ==
    {[AstronomicalCalculator |-> FALSE, names |-> FALSE],
     [AstronomicalCalculator |-> TRUE, names |-> FALSE],
     [AstronomicalCalculator |-> TRUE, names |-> TRUE]}

\* the bodies page.tsx asks for, and two names with a capital
GeocentricBodies == {"sun", "mercury", "venus", "mars", "jupiter", "saturn", "Mars", "Venus"}

Instants ==
    {[year |-> y, month |-> m, date |-> d, hours |-> h, minutes |-> mi, seconds |-> 0] :
        y \in Years, m \in 0..11, d \in {1, 28}, h \in {0, 12, 18}, mi \in {0, 30}}

-----------------------------------------------------------------------------
(* The state machine: one action per public entry point.                    *)

NoCall == [fn |-> "none", args |-> [none |-> TRUE]]

NoDate == [year |-> 0, month |-> 0, date |-> 0]

Init ==
    /\ pc = "idle"
    /\ call = NoCall
    /\ ret = [none |-> TRUE]
    /\ dateFns = "none"
    /\ balance = Num(0)
    /\ startLord = "none"
    /\ currentDate = NoDate
    /\ foundStart = FALSE
    /\ i = 0
    /\ dashas = <<>>
    /\ natalDate = 0
    /\ entryIndex = 0
    /\ transits = <<>>
    /\ globals = [AstronomicalCalculator |-> FALSE, names |-> FALSE]
    /\ RAMC = Num(0)
    /\ semiArc = [third |-> Num(0), twoThirds |-> Num(0)]
    /\ ascendantCusp = Hole
    /\ callIndex = 0
    /\ houses = <<>>

Return(fn, args, value) ==
    /\ call' = [fn |-> fn, args |-> args]
    /\ ret' = value
    /\ pc' = "returned"
    /\ UNCHANGED <<dashaVars, transitVars, houseVars>>

\* the call ends by throwing
Throw(fn, args, error) ==
    /\ call' = [fn |-> fn, args |-> args]
    /\ ret' = error
    /\ pc' = "threw"
    /\ UNCHANGED <<dashaVars, transitVars, houseVars>>

CalculateSign ==
    /\ pc = "idle"
    /\ \E longitude \in Longitudes :
        Return("calculateSign", [longitude |-> longitude],
               [sign |-> calculateSign(longitude)])

CalculateNakshatra ==
    /\ pc = "idle"
    /\ \E longitude \in Longitudes :
        Return("calculateNakshatra", [longitude |-> longitude], calculateNakshatra(longitude))

CalculateJulianDate ==
    /\ pc = "idle"
    /\ \E date \in Instants :
        Return("calculateJulianDate", [date |-> date], [jd |-> calculateJulianDate(date)])

GetNakshatraLord ==
    /\ pc = "idle"
    /\ \E nakshatra \in Nakshatras :
        Return("getNakshatraLord", [nakshatra |-> nakshatra],
               [dasha |-> Dasha_getNakshatraLord(nakshatra),
                astrology |-> Astrology_getNakshatraLord(nakshatra)])

CalculateDashaBalance ==
    /\ pc = "idle"
    /\ \E nakshatra \in NakshatraArgs, degrees \in DegreeArgs :
        Return("calculateDashaBalance", [nakshatra |-> nakshatra, degrees |-> degrees],
               [years |-> calculateDashaBalance(nakshatra, degrees)])

CalculateHouse ==
    /\ pc = "idle"
    /\ \E longitude \in HouseLongitudes, ascendant \in AscendantLongitudes :
        Return("calculateHouse", [longitude |-> longitude, ascendant |-> ascendant],
               [house |-> calculateHouse(longitude, ascendant)])

CalculateAspect ==
    /\ pc = "idle"
    /\ \E a \in AspectBases, b \in AspectLongitudes, maxOrb \in MaxOrbs :
        Return("calculateAspect",
               [pos1 |-> [longitude |-> a], pos2 |-> [longitude |-> b], maxOrb |-> maxOrb],
               [aspect |-> Transit_calculateAspect([longitude |-> a], [longitude |-> b],
                                                   maxOrb)])

CalculateTransitPosition ==
    /\ pc = "idle"
    /\ \E birthPosition \in NatalPositions, date1 \in BirthTimes, date2 \in TransitTimes :
        Return("calculateTransitPosition",
               [birthPosition |-> birthPosition, transitDate |-> date2, birthDate |-> date1],
               [position |-> calculateTransitPosition(birthPosition, date2, date1)])

CalculatePlanetStrength ==
    /\ pc = "idle"
    /\ \E position \in StrengthPositions :
        Return("calculatePlanetStrength", [position |-> position],
               [strength |-> calculatePlanetStrength(position)])

Dignity ==
    /\ pc = "idle"
    /\ \E planet \in Bodies, sign \in 1..12 :
        Return("dignity", [planet |-> planet, sign |-> sign],
               [exalted |-> isExalted(planet, sign),
                debilitated |-> isDebilitated(planet, sign)])

PageCalculateJulianDate ==
    /\ pc = "idle"
    /\ \E date \in Instants :
        Return("page.calculateJulianDate", [date |-> date],
               [jd |-> Page_calculateJulianDate(date)])

NormalizeAngle ==
    /\ pc = "idle"
    /\ \E angle \in NormalizeAngles :
        Return("normalizeAngle", [angle |-> angle],
               [astrology |-> Astrology_normalizeAngle(angle),
                astronomy |-> Astronomy_normalizeAngle(angle),
                houses |-> Houses_normalizeAngle(angle)])

CalculateGeocentricPosition ==
    /\ pc = "idle"
    /\ \E planet \in GeocentricBodies, jd \in JulianDates :
        LET position == calculateGeocentricPosition(planet, jd)
        IN  IF "error" \in DOMAIN position
            THEN Throw("calculateGeocentricPosition", [planet |-> planet, jd |-> jd],
                       position)
            ELSE Return("calculateGeocentricPosition", [planet |-> planet, jd |-> jd],
                        position)

NextPure ==
    \/ CalculateSign
    \/ CalculateNakshatra
    \/ CalculateJulianDate
    \/ GetNakshatraLord
    \/ CalculateDashaBalance
    \/ CalculateHouse
    \/ CalculateAspect
    \/ CalculateTransitPosition
    \/ CalculateGeocentricPosition
    \/ CalculatePlanetStrength
    \/ Dignity
    \/ PageCalculateJulianDate
    \/ NormalizeAngle

SpecPure == Init /\ [][NextPure]_vars

(* calculateDashaPeriods, one action per pass of its loop *)

\* mutant: the balance is never used
PeriodYears_AlwaysFull(found, lord, bal) == Num(DASHA_YEARS[lord])

\* const years = foundStart ? this.DASHA_YEARS[lord] : balance
PeriodYears(found, lord, bal) == IF found THEN Num(DASHA_YEARS[lord]) ELSE bal

DashaStart ==
    /\ pc = "idle"
    /\ \E birthDate \in BirthDates, nakshatra \in NakshatraArgs, degrees \in DegreeArgs,
          lib \in DateFnsBehaviours :
          /\ call' = [fn |-> "calculateDashaPeriods",
                      args |-> [birthDate |-> birthDate, nakshatra |-> nakshatra,
                                degrees |-> degrees]]
          /\ dateFns' = lib
          /\ dashas' = <<>>
          /\ balance' = calculateDashaBalance(nakshatra, degrees)
          /\ startLord' = Dasha_getNakshatraLord(nakshatra)
          /\ currentDate' = birthDate
          /\ foundStart' = FALSE
          /\ i' = 0
    /\ pc' = "dasha"
    /\ UNCHANGED <<ret, transitVars, houseVars>>

DashaIteration ==
    /\ pc = "dasha"
    /\ i < 9
    /\ LET lordIndex == JsMod(IndexOf(NAKSHATRA_LORDS, startLord) + i, 9)
           lord == ArrayGet(NAKSHATRA_LORDS, lordIndex)
           years == PeriodYears(foundStart, lord, balance)
           startDate == currentDate
           endDate == addYears(startDate, years)
       IN  /\ foundStart' = TRUE
           /\ dashas' = Append(dashas,
                  [planet |-> lord,
                   startDate |-> format(startDate),
                   endDate |-> format(endDate),
                   years |-> years,
                   subPeriods |-> calculateAntarDasha(lord, startDate, years)])
           /\ currentDate' = endDate
    /\ i' = i + 1
    /\ UNCHANGED <<pc, call, ret, dateFns, balance, startLord, transitVars, houseVars>>

DashaReturn ==
    /\ pc = "dasha"
    /\ ~(i < 9)
    /\ ret' = [dashas |-> dashas]
    /\ pc' = "returned"
    /\ UNCHANGED <<call, dashaVars, transitVars, houseVars>>

NextDasha ==
    \/ DashaStart
    \/ DashaIteration
    \/ DashaReturn

SpecDasha == Init /\ [][NextDasha]_vars

(* calculateAllTransits, one action per entry of birthChart.planets *)

AllTransitsStart ==
    /\ pc = "idle"
    /\ \E birthChart \in BirthCharts, transitDate \in TransitTimes :
          /\ call' = [fn |-> "calculateAllTransits",
                      args |-> [birthChart |-> birthChart, transitDate |-> transitDate]]
          /\ natalDate' = ParseDate(birthChart.datetime)
    /\ transits' = <<>>
    /\ entryIndex' = 1
    /\ pc' = "transits"
    /\ UNCHANGED <<ret, dashaVars, houseVars>>

AllTransitsIteration ==
    /\ pc = "transits"
    /\ entryIndex <= Len(call.args.birthChart.planets)
    /\ LET planet == call.args.birthChart.planets[entryIndex].key
           position == call.args.birthChart.planets[entryIndex].value
       IN  transits' = Append(transits,
               [key |-> planet,
                value |-> IF planet # "ascendant"
                          THEN calculateTransitPosition(position, call.args.transitDate,
                                                        natalDate)
                          ELSE position])
    /\ entryIndex' = entryIndex + 1
    /\ UNCHANGED <<pc, call, ret, natalDate, dashaVars, houseVars>>

AllTransitsReturn ==
    /\ pc = "transits"
    /\ ~(entryIndex <= Len(call.args.birthChart.planets))
    /\ ret' = [transits |-> transits]
    /\ pc' = "returned"
    /\ UNCHANGED <<call, transitVars, dashaVars, houseVars>>

NextTransit ==
    \/ AllTransitsStart
    \/ AllTransitsIteration
    \/ AllTransitsReturn

SpecTransit == Init /\ [][NextTransit]_vars

(* calculatePlacidusHouses, one action per group of cusp writes *)

PlacidusStart ==
    /\ pc = "idle"
    /\ \E jd \in {J2000}, latitude \in Latitudes, longitude \in GeoLongitudes,
          GMST \in SiderealAngles, scope \in GlobalScopes :
          /\ call' = [fn |-> "calculatePlacidusHouses",
                      args |-> [jd |-> jd, latitude |-> latitude, longitude |-> longitude]]
          /\ globals' = scope
          /\ RAMC' = calculateRAMC(GMST, longitude)
          /\ \E a1 \in SemiArc(latitude), a2 \in SemiArc(latitude) :
                semiArc' = [third |-> a1, twoThirds |-> a2]
    /\ houses' = [k \in 1..12 |-> Hole]
    /\ ascendantCusp' = Hole
    /\ callIndex' = 0
    /\ pc' = "midheaven"
    /\ UNCHANGED <<ret, dashaVars, transitVars>>

\* lines 7-13: the obliquity, then the midheaven and the cusp opposite
PlacidusMidheaven ==
    /\ pc = "midheaven"
    /\ IF ~globals.AstronomicalCalculator
       THEN /\ ret' = [error |-> "ReferenceError"]
            /\ pc' = "threw"
            /\ UNCHANGED houses
       ELSE /\ \E midheaven \in calculateMidheaven(RAMC) :
                  houses' = [houses EXCEPT
                                ![10] = midheaven,
                                ![4] = Houses_normalizeAngle(JsAdd(midheaven, Num(180)))]
            /\ pc' = "ascendant"
            /\ UNCHANGED ret
    /\ UNCHANGED <<call, globals, RAMC, semiArc, ascendantCusp, callIndex, dashaVars,
                   transitVars>>

\* lines 16-18: the ascendant and the cusp opposite
PlacidusAscendant ==
    /\ pc = "ascendant"
    /\ IF ~globals.names
       THEN /\ ret' = [error |-> "ReferenceError"]
            /\ pc' = "threw"
            /\ UNCHANGED <<houses, ascendantCusp, callIndex>>
       ELSE /\ \E ascendant \in calculateAscendant :
                  /\ ascendantCusp' = ascendant
                  /\ houses' = [houses EXCEPT
                                   ![1] = ascendant,
                                   ![7] = Houses_normalizeAngle(JsAdd(ascendant, Num(180)))]
            /\ callIndex' = 1
            /\ pc' = "intermediate"
            /\ UNCHANGED ret
    /\ UNCHANGED <<call, globals, RAMC, semiArc, dashaVars, transitVars>>

\* lines 21-26: the next calculateIntermediate call
PlacidusIntermediate ==
    /\ pc = "intermediate"
    /\ callIndex <= Len(IntermediateCalls)
    /\ LET c == IntermediateCalls[callIndex]
           a == IF c.fraction = Rat(1, 3) THEN semiArc.third ELSE semiArc.twoThirds
       IN  houses' = calculateIntermediate(RAMC, a, houses, c.houseNum, c.fraction)
    /\ callIndex' = callIndex + 1
    /\ UNCHANGED <<pc, call, ret, globals, RAMC, semiArc, ascendantCusp, dashaVars,
                   transitVars>>

PlacidusReturn ==
    /\ pc = "intermediate"
    /\ ~(callIndex <= Len(IntermediateCalls))
    /\ ret' = [houses |-> houses]
    /\ pc' = "returned"
    /\ UNCHANGED <<call, houseVars, dashaVars, transitVars>>

NextHouses ==
    \/ PlacidusStart
    \/ PlacidusMidheaven
    \/ PlacidusAscendant
    \/ PlacidusIntermediate
    \/ PlacidusReturn

SpecHouses == Init /\ [][NextHouses]_vars

Next == NextPure \/ NextDasha \/ NextTransit \/ NextHouses

Spec == Init /\ [][Next]_vars

-----------------------------------------------------------------------------
(* C1: for every longitude calculateSign is in 1..12, and calculateNakshatra *)
(* gives a nakshatra in 1..27 and a pada in 1..4.                            *)
C1_AttributeRanges ==
    /\ call.fn = "calculateSign" => ret.sign \in 1..12
    /\ call.fn = "calculateNakshatra" => ret.nakshatra \in 1..27 /\ ret.pada \in 1..4

(* C2: the sign changes exactly at multiples of 30 degrees, the nakshatra    *)
(* exactly at multiples of 360/27: for k*(360/27) <= L < (k+1)*(360/27),     *)
(* k in 0..26, calculateNakshatra(L).nakshatra = k+1; the pada changes       *)
(* exactly at multiples of 360/108 inside the nakshatra.                     *)
TruePadaSpan == Rat(360, 108)

InCircle(L) == RLe(Num(0), L) /\ RLt(L, Num(360))

C2_ExactBoundaries ==
    /\ (call.fn = "calculateSign" /\ InCircle(call.args.longitude)) =>
          \E k \in 0..11 :
              /\ RLe(Num(30 * k), call.args.longitude)
              /\ RLt(call.args.longitude, Num(30 * (k + 1)))
              /\ ret.sign = k + 1
    /\ (call.fn = "calculateNakshatra" /\ InCircle(call.args.longitude)) =>
          \E k \in 0..26, p \in 0..3 :
              /\ RLe(RMul(Num(4 * k + p), TruePadaSpan), call.args.longitude)
              /\ RLt(call.args.longitude, RMul(Num(4 * k + p + 1), TruePadaSpan))
              /\ ret.nakshatra = k + 1
              /\ ret.pada = p + 1

(* C3: calculateJulianDate of the civil instant 2000-01-01 12:00:00 is      *)
(* exactly 2451545.0, the class's own J2000 constant.                        *)
EpochInstant ==
    [year |-> 2000, month |-> 0, date |-> 1, hours |-> 12, minutes |-> 0, seconds |-> 0]

C3_EpochJulianDate ==
    (call.fn = "calculateJulianDate" /\ call.args.date = EpochInstant) => ret.jd = J2000

-----------------------------------------------------------------------------
(* Claims about DashaCalculator                                             *)

\* the lord order the claims name
CyclicOrder ==
    <<"ketu", "venus", "sun", "moon", "mars", "rahu", "jupiter", "saturn", "mercury">>

RECURSIVE SumYears(_)
SumYears(periods) ==
    IF periods = <<>> THEN Num(0)
    ELSE RAdd(periods[1].years, SumYears(Tail(periods)))

InDasha == call.fn = "calculateDashaPeriods"

DashaReturned == InDasha /\ pc = "returned"

BirthLord == CyclicOrder[((call.args.nakshatra - 1) % 9) + 1]

\* (span - d) / span * allotment, with span = 360/27 = 40/3, as one fraction
Residual(nakshatra, degrees) ==
    Rat((40 * degrees.den - 3 * degrees.num) * DASHA_YEARS[CyclicOrder[((nakshatra - 1) % 9) + 1]],
        40 * degrees.den)

\* the documented argument ranges: nakshatra 1..27, degrees in [0, 360/27]
ValidDashaArgs ==
    /\ call.args.nakshatra \in 1..27
    /\ RLe(Num(0), call.args.degrees)
    /\ RLe(call.args.degrees, Rat(40, 3))

(* C4: for every top-level period, the shortened first one included, the    *)
(* years of its nine sub-periods sum to the period's years.                  *)
C4_SubPeriodYearsSum ==
    InDasha =>
        \A k \in 1..Len(dashas) :
            /\ Len(dashas[k].subPeriods) = 9
            /\ SumYears(dashas[k].subPeriods) = dashas[k].years

C4_Witness ==
    /\ InDasha
    /\ Len(dashas) = 9
    /\ dashas[1].years.den > 1
    /\ SumYears(dashas[1].subPeriods) = dashas[1].years
    /\ SumYears(dashas[9].subPeriods) = dashas[9].years

(* C5: for every top-level period the first sub-period starts at the        *)
(* period's start date and the ninth sub-period ends at the period's end    *)
(* date.                                                                     *)
C5_SubPeriodsCoverParent ==
    InDasha =>
        \A k \in 1..Len(dashas) :
            /\ dashas[k].subPeriods[1].startDate = dashas[k].startDate
            /\ dashas[k].subPeriods[9].endDate = dashas[k].endDate

(* C6: sibling periods are contiguous at both levels, and the first         *)
(* top-level period starts at the birth date.                                *)
C6_Contiguous ==
    InDasha =>
        /\ \A k \in 1..(Len(dashas) - 1) : dashas[k + 1].startDate = dashas[k].endDate
        /\ \A k \in 1..Len(dashas) : \A j \in 1..8 :
              dashas[k].subPeriods[j + 1].startDate = dashas[k].subPeriods[j].endDate
        /\ Len(dashas) >= 1 =>
              dashas[1].startDate = [yyyy |-> call.args.birthDate.year,
                                     MM |-> call.args.birthDate.month + 1,
                                     dd |-> call.args.birthDate.date]

C6_Witness ==
    /\ DashaReturned
    /\ Len(ret.dashas) = 9
    /\ ret.dashas[2].startDate = ret.dashas[1].endDate
    /\ ret.dashas[1].endDate # ret.dashas[1].startDate
    /\ ret.dashas[2].subPeriods[2].startDate = ret.dashas[2].subPeriods[1].endDate
    /\ ret.dashas[2].subPeriods[2].startDate # ret.dashas[2].subPeriods[1].startDate

(* C7: calculateDashaPeriods returns exactly nine top-level periods whose   *)
(* lords follow the cyclic order from the birth lord, each lord once; the   *)
(* first period's years is the residual balance, each of the other eight    *)
(* has its lord's full allotment.                                            *)
C7_NinePeriodsInOrder ==
    DashaReturned =>
        /\ Len(ret.dashas) = 9
        /\ \A k \in 1..9 :
              ret.dashas[k].planet = CyclicOrder[((call.args.nakshatra - 1 + k - 1) % 9) + 1]
        /\ Cardinality({ret.dashas[k].planet : k \in 1..9}) = 9
        /\ ret.dashas[1].years = Residual(call.args.nakshatra, call.args.degrees)
        /\ \A k \in 2..9 : ret.dashas[k].years = Num(DASHA_YEARS[ret.dashas[k].planet])

C7_Witness ==
    /\ DashaReturned
    /\ call.args.nakshatra = 13
    /\ call.args.degrees = Num(5)
    /\ ret.dashas[1].planet = "moon"
    /\ ret.dashas[1].years = Rat(25, 4)
    /\ ret.dashas[9].planet = "sun"

(* C8: for every nakshatra n in 1..27 the starting lord is the lord at      *)
(* position (n-1) mod 9 of the cyclic order, so n, n+9 and n+18 share a     *)
(* lord, and DashaCalculator.getNakshatraLord and                            *)
(* AstrologyCalculator.getNakshatraLord return the same lord.                *)
C8_NakshatraLord ==
    call.fn = "getNakshatraLord" =>
        /\ ret.dasha = CyclicOrder[((call.args.nakshatra - 1) % 9) + 1]
        /\ ret.astrology = ret.dasha
        /\ \A n \in 1..27 :
              (n - call.args.nakshatra) % 9 = 0 => Dasha_getNakshatraLord(n) = ret.dasha

C8_Witness ==
    /\ call.fn = "getNakshatraLord"
    /\ call.args.nakshatra = 24
    /\ ret.dasha = "rahu"
    /\ ret.astrology = "rahu"

(* C9: for every nakshatra and every degrees-traversed d in [0, 360/27],    *)
(* calculateDashaBalance returns (span - d)/span times the lord's           *)
(* allotment: within [0, allotment], the full allotment at d = 0, 0 at      *)
(* d = span, strictly decreasing in d.                                       *)
C9_DashaBalance ==
    (call.fn = "calculateDashaBalance" /\ ValidDashaArgs) =>
        LET n == call.args.nakshatra
            d == call.args.degrees
            allotment == Num(DASHA_YEARS[BirthLord])
        IN  /\ ret.years = Residual(n, d)
            /\ RLe(Num(0), ret.years) /\ RLe(ret.years, allotment)
            /\ d = Num(0) => ret.years = allotment
            /\ d = Rat(40, 3) => ret.years = Num(0)
            /\ \A d2 \in Degrees : RLt(d, d2) => RLt(calculateDashaBalance(n, d2), ret.years)

C9_Witness ==
    /\ call.fn = "calculateDashaBalance"
    /\ call.args.nakshatra = 2
    /\ call.args.degrees = Num(10)
    /\ ret.years = Num(5)

(* C10: the nine allotments sum to 120 years, and the nine top-level        *)
(* durations sum to residual + (120 - birth lord's allotment): exactly 120  *)
(* when the degrees traversed are 0, never more than 120.                    *)
RECURSIVE SumAllotments(_)
SumAllotments(lords) ==
    IF lords = <<>> THEN 0 ELSE DASHA_YEARS[lords[1]] + SumAllotments(Tail(lords))

C10_CycleLength ==
    /\ SumAllotments(CyclicOrder) = 120
    /\ DashaReturned =>
          LET total == SumYears(ret.dashas)
          IN  /\ total = RAdd(Residual(call.args.nakshatra, call.args.degrees),
                              Num(120 - DASHA_YEARS[BirthLord]))
              /\ call.args.degrees = Num(0) => total = Num(120)
              /\ RLe(total, Num(120))

C10_Witness ==
    /\ DashaReturned
    /\ call.args.degrees = Num(10)
    /\ call.args.nakshatra = 11
    /\ SumYears(ret.dashas) = Num(105)

(* C11: a call of calculateDashaPeriods or calculateDashaBalance whose       *)
(* nakshatra is outside 1..27 or whose degrees are outside [0, 360/27]      *)
(* is rejected: it returns no value and builds no timeline.                  *)
C11_InvalidInputRejected ==
    (call.fn \in {"calculateDashaPeriods", "calculateDashaBalance"} /\ ~ValidDashaArgs) =>
        (pc # "returned" /\ dashas = <<>>)

-----------------------------------------------------------------------------
(* Claims about TransitCalculator and AstrologyCalculator.calculateHouse    *)

InAspect == call.fn = "calculateAspect"

\* the five canonical angles and their names, in ascending order
CanonicalAngles == <<0, 60, 90, 120, 180>>

CanonicalTypes == <<"conjunction", "sextile", "square", "trine", "opposition">>

(* C12: aspect detection is symmetric: calculateAspect(A, B, maxOrb) and    *)
(* calculateAspect(B, A, maxOrb) return the same result, the same kind and  *)
(* orb or both none, for all longitudes and every maxOrb.                   *)
C12_AspectSymmetric ==
    InAspect =>
        ret.aspect = Transit_calculateAspect(call.args.pos2, call.args.pos1, call.args.maxOrb)

C12_Witness ==
    /\ InAspect
    /\ call.args.pos1.longitude = Num(-10)
    /\ call.args.pos2.longitude = Num(50)
    /\ ret.aspect = [type |-> "sextile", orb |-> Num(0)]

(* C13: for longitudes in [0, 360) and maxOrb = 6 an aspect is returned     *)
(* only when the minimal separation min(d, 360 - d) is within maxOrb of a   *)
(* canonical angle, and the reported orb is the distance of that minimal    *)
(* separation from the reported canonical angle.                            *)
C13_AspectSound ==
    (/\ InAspect
     /\ InCircle(call.args.pos1.longitude)
     /\ InCircle(call.args.pos2.longitude)
     /\ call.args.maxOrb = 6
     /\ ret.aspect # Null) =>
        LET d == RAbs(RSub(call.args.pos1.longitude, call.args.pos2.longitude))
            separation == IF RLt(Num(180), d) THEN RSub(Num(360), d) ELSE d
        IN  \E k \in 1..5 :
                /\ ret.aspect.type = CanonicalTypes[k]
                /\ ret.aspect.orb = RAbs(RSub(separation, Num(CanonicalAngles[k])))
                /\ RLe(ret.aspect.orb, Num(6))

C13_Witness ==
    /\ InAspect
    /\ call.args.maxOrb = 6
    /\ call.args.pos1.longitude = Num(0)
    /\ call.args.pos2.longitude = Rat(371, 2)
    /\ ret.aspect = [type |-> "opposition", orb |-> Rat(11, 2)]

(* C14: at most one aspect is reported per pair: the lowest canonical       *)
(* angle, in the order 0, 60, 90, 120, 180, whose orb (its distance from    *)
(* the separation |a - b| mod 360 the method measures) is <= maxOrb, and    *)
(* none when there is no such angle; of two equally distant canonical       *)
(* angles the lower is returned; 15 and 195 degrees give opposition, orb 0. *)
C14_LowestCanonicalFirst ==
    InAspect =>
        LET d == RAbs(RSub(call.args.pos1.longitude, call.args.pos2.longitude))
            s == RSub(d, Num(360 * Floor(RDiv(d, Num(360)))))
            matching == {k \in 1..5 :
                            RLe(RAbs(RSub(s, Num(CanonicalAngles[k]))), Num(call.args.maxOrb))}
        IN  /\ IF matching = {} THEN ret.aspect = Null
               ELSE LET k == CHOOSE m \in matching : \A j \in matching : m <= j
                    IN  ret.aspect = [type |-> CanonicalTypes[k],
                                      orb |-> RAbs(RSub(s, Num(CanonicalAngles[k])))]
            /\ (call.args.pos1.longitude = Num(15) /\ call.args.pos2.longitude = Num(195)) =>
                  ret.aspect = [type |-> "opposition", orb |-> Num(0)]

C14_Witness ==
    /\ InAspect
    /\ call.args.maxOrb = 30
    /\ call.args.pos1.longitude = Num(0)
    /\ call.args.pos2.longitude = Num(30)
    /\ ret.aspect = [type |-> "conjunction", orb |-> Num(30)]

(* C15: for every body of the daily-motion table, the lunar nodes with      *)
(* their negative motion included, every natal longitude in [0, 360) and    *)
(* every pair of dates, calculateTransitPosition returns the longitude      *)
(* (birthLongitude + motion * daysBetween(from, to)) mod 360, in [0, 360).  *)
(* The sun, 0.9856 degrees a day, is at 98.56 a hundred days after 0.       *)
C15_TransitLongitude ==
    call.fn = "calculateTransitPosition" =>
        LET natal == call.args.birthPosition
            elapsed == Abs(call.args.transitDate - call.args.birthDate)
            days == (2 * elapsed + oneDay) \div (2 * oneDay)
            target == RAdd(natal.longitude, RMul(DAILY_MOTION[natal.planet], Num(days)))
            longitude == ret.position.longitude
        IN  /\ RLe(Num(0), longitude) /\ RLt(longitude, Num(360))
            /\ RDiv(RSub(target, longitude), Num(360)).den = 1
            /\ (natal.planet = "sun" /\ natal.longitude = Num(0) /\ days = 100) =>
                  longitude = Rat(9856, 100)

C15_Witness ==
    /\ call.fn = "calculateTransitPosition"
    /\ call.args.birthPosition.planet = "rahu"
    /\ call.args.birthPosition.longitude = Num(0)
    /\ call.args.transitDate - call.args.birthDate = 100 * oneDay
    /\ ret.position.longitude = Rat(35471, 100)

InAllTransits == call.fn = "calculateAllTransits"

\* the longitude of the 'ascendant' entry of the birth chart
NatalAscendant == call.args.birthChart.planets[1].value.longitude

(* C16: the house of every position calculateAllTransits projects is the    *)
(* house of the projected longitude counted from the natal ascendant, and   *)
(* its sign and nakshatra are those of the projected longitude.             *)
C16_TransitHouse ==
    InAllTransits =>
        \A k \in 1..Len(transits) :
            transits[k].key # "ascendant" =>
                LET position == transits[k].value
                IN  /\ position.house = calculateHouse(position.longitude, NatalAscendant)
                    /\ position.sign = calculateSign(position.longitude)
                    /\ position.nakshatra = calculateNakshatra(position.longitude).nakshatra

\* the sign of a longitude in [0, 360) and the degrees within that sign
SignOf(longitude) == Floor(RDiv(longitude, Num(30))) + 1

DegreeInSign(longitude) == RSub(longitude, Num(30 * Floor(RDiv(longitude, Num(30)))))

WholeSignHouse(longitude, ascendant) == ((SignOf(longitude) - SignOf(ascendant)) % 12) + 1

(* C17 as stated: calculateHouse returns a house in 1..12 that is the       *)
(* whole-sign offset ((sign(body) - sign(ascendant)) mod 12) + 1, whatever  *)
(* the ascendant's degree within its sign; ascendant 10 and body 100 give   *)
(* house 4.                                                                 *)
C17_WholeSignHouse ==
    call.fn = "calculateHouse" =>
        /\ ret.house \in 1..12
        /\ ret.house = WholeSignHouse(call.args.longitude, call.args.ascendant)
        /\ (call.args.ascendant = Num(10) /\ call.args.longitude = Num(100)) => ret.house = 4

(* C17 amended: calculateHouse returns a house in 1..12 that counts the     *)
(* 30-degree segments from the ascendant's own degree: it is the whole-sign *)
(* offset when the body's degree within its sign is not below the           *)
(* ascendant's, and the house before that otherwise; ascendant 10 and body  *)
(* 100 give house 4.                                                        *)
C17_HouseFromAscendantDegree ==
    call.fn = "calculateHouse" =>
        LET whole == WholeSignHouse(call.args.longitude, call.args.ascendant)
        IN  /\ ret.house \in 1..12
            /\ ret.house =
                  IF RLe(DegreeInSign(call.args.ascendant), DegreeInSign(call.args.longitude))
                  THEN whole
                  ELSE ((whole - 2) % 12) + 1
            /\ (call.args.ascendant = Num(10) /\ call.args.longitude = Num(100)) =>
                  ret.house = 4

C17_Witness ==
    /\ call.fn = "calculateHouse"
    /\ call.args.ascendant = Num(10)
    /\ call.args.longitude = Num(35)
    /\ ret.house = 1

-----------------------------------------------------------------------------
(* Claims about HouseCalculator and PlanetaryPositions                      *)

InPlacidus == call.fn = "calculatePlacidusHouses"

IsNumber(v) == v # Hole /\ v # NaN

(* C18: in the array calculatePlacidusHouses returns, entry 0 is the       *)
(* ascendant that calculateAscendant computed.                              *)
C18_FirstCuspIsAscendant ==
    (InPlacidus /\ pc = "returned") => ret.houses[1] = ascendantCusp

\* twelve cusps, all numbers, each 30 degrees after the one before
WholeSignCusps(cusps) ==
    /\ \A k \in 1..12 : IsNumber(cusps[k])
    /\ \A k \in 1..11 : cusps[k + 1] = Houses_normalizeAngle(RAdd(cusps[k], Num(30)))

(* C19: at a singular latitude, cos(latitude) = 0, calculatePlacidusHouses  *)
(* does not return semi-arc cusps: what it returns, if anything, is the     *)
(* whole-sign fallback, and holds no NaN.                                   *)
C19_SingularLatitudeHandled ==
    (InPlacidus /\ SingularLatitude(call.args.latitude) /\ pc = "returned") =>
        /\ \A k \in 1..12 : ret.houses[k] # NaN
        /\ WholeSignCusps(ret.houses)

(* C20: calculateGeocentricPosition does not fail: for each of sun,         *)
(* mercury, venus, mars, jupiter, saturn and every Julian date it returns   *)
(* a position, the term tables of the body and of the earth being found.    *)
C20_GeocentricNeverFails ==
    call.fn = "calculateGeocentricPosition" =>
        /\ pc = "returned"
        /\ getPlanetTerms(call.args.planet) # Undefined
        /\ getPlanetTerms("earth") # Undefined

-----------------------------------------------------------------------------
(* Claims about attribute derivation                                        *)

\* the signs each body rules
Rulerships ==
    [sun |-> {5}, moon |-> {4}, mars |-> {1, 8}, mercury |-> {3, 6}, jupiter |-> {9, 12},
     venus |-> {2, 7}, saturn |-> {10, 11}, rahu |-> {}, ketu |-> {}]

(* C21: calculatePlanetStrength is the sum of the bonuses that apply: 20    *)
(* for house 1 or 10, 30 for a body in a sign it rules, 20 for a            *)
(* degree-in-sign strictly between 10 and 20, 15 for a body that is not     *)
(* retrograde; it is within 0..100, and a degree of exactly 10 or 20 earns  *)
(* no degree bonus.                                                         *)
C21_StrengthIsSumOfBonuses ==
    call.fn = "calculatePlanetStrength" =>
        LET position == call.args.position
            angular == IF position.house \in {1, 10} THEN 20 ELSE 0
            ownSign == IF position.sign \in Rulerships[position.planet] THEN 30 ELSE 0
            deep == IF position.degree \in 11..19 THEN 20 ELSE 0
            direct == IF position.isRetrograde THEN 0 ELSE 15
        IN  /\ ret.strength = angular + ownSign + deep + direct
            /\ ret.strength \in 0..100
            /\ position.degree \in {10, 20} => ret.strength = angular + ownSign + direct

C21_Witness ==
    /\ call.fn = "calculatePlanetStrength"
    /\ call.args.position =
          [planet |-> "mars", house |-> 10, sign |-> 8, degree |-> 20, isRetrograde |-> FALSE]
    /\ ret.strength = 65

\* the sign six signs away
OppositeSign(sign) == ((sign + 5) % 12) + 1

(* C22: no body is both exalted and debilitated in a sign; for each of the  *)
(* seven bodies of the tables the debilitation sign is the sign opposite    *)
(* the exaltation sign; rahu and ketu are never exalted or debilitated.     *)
C22_DignitySingleValued ==
    call.fn = "dignity" =>
        LET planet == call.args.planet
            sign == call.args.sign
        IN  /\ ~(ret.exalted /\ ret.debilitated)
            /\ planet \in {"rahu", "ketu"} => ~ret.exalted /\ ~ret.debilitated
            /\ planet \notin {"rahu", "ketu"} =>
                  /\ ret.exalted <=> isDebilitated(planet, OppositeSign(sign))
                  /\ ret.debilitated <=> isExalted(planet, OppositeSign(sign))
                  /\ \E s \in 1..12 : isExalted(planet, s)

C22_Witness ==
    /\ call.fn = "dignity"
    /\ call.args.planet = "venus"
    /\ call.args.sign = 6
    /\ ret.debilitated
    /\ ~ret.exalted

-----------------------------------------------------------------------------
(* Claims about the Julian date                                             *)

\* the same time of day on the next day of the proleptic Gregorian calendar
NextCivilDay(date) ==
    IF date.date < DaysInMonth(date.year, date.month)
    THEN [date EXCEPT !.date = date.date + 1]
    ELSE IF date.month < 11
    THEN [date EXCEPT !.date = 1, !.month = date.month + 1]
    ELSE [date EXCEPT !.date = 1, !.month = 0, !.year = date.year + 1]

\* a is an earlier instant than b
Earlier(a, b) ==
    LET ka == <<a.year, a.month, a.date, a.hours, a.minutes, a.seconds>>
        kb == <<b.year, b.month, b.date, b.hours, b.minutes, b.seconds>>
    IN  \E n \in 1..6 : ka[n] < kb[n] /\ \A j \in 1..(n - 1) : ka[j] = kb[j]

(* C23: calculateJulianDate is strictly monotonic and continuous in the     *)
(* calendar instant: a later instant has a larger JD, and the same time on  *)
(* the next civil day has a JD exactly 1.0 larger, from 1800 to 2200 and    *)
(* across 1900-02-28/03-01 and 2100-02-28/03-01.                            *)
C23_JulianDateContinuous ==
    call.fn = "calculateJulianDate" =>
        /\ calculateJulianDate(NextCivilDay(call.args.date)) = RAdd(ret.jd, Num(1))
        /\ \A later \in Instants :
              (later.year = call.args.date.year /\ Earlier(call.args.date, later)) =>
                  RLt(ret.jd, calculateJulianDate(later))

(* C30: the two Julian-date implementations agree: for the same year,      *)
(* month, day, hour, minute and second, calculateJulianDate of              *)
(* AstronomicalCalculator and calculateJulianDate of the page return the    *)
(* same JD.                                                                 *)
C30_JulianDatesAgree ==
    /\ call.fn = "calculateJulianDate" => ret.jd = Page_calculateJulianDate(call.args.date)
    /\ call.fn = "page.calculateJulianDate" => ret.jd = calculateJulianDate(call.args.date)

-----------------------------------------------------------------------------
(* Claims about normalizeAngle                                              *)

(* C24: each degree-based normalizeAngle (AstrologyCalculator,              *)
(* AstronomicalCalculator, HouseCalculator) returns a value in [0, 360)     *)
(* for every input, negative inputs and multiples of 360 included, and is   *)
(* idempotent.                                                              *)
C24_NormalizeAngle ==
    call.fn = "normalizeAngle" =>
        /\ InCircle(ret.astrology)
        /\ InCircle(ret.astronomy)
        /\ InCircle(ret.houses)
        /\ Astrology_normalizeAngle(ret.astrology) = ret.astrology
        /\ Astronomy_normalizeAngle(ret.astronomy) = ret.astronomy
        /\ Houses_normalizeAngle(ret.houses) = ret.houses

\* the same, on the inputs whose arithmetic is exact
C24_ExactInputs ==
    (call.fn = "normalizeAngle" /\ call.args.angle # NegTiny) => C24_NormalizeAngle

-----------------------------------------------------------------------------
(* Claims about the returned cusp array                                     *)

(* C25: calculatePlacidusHouses returns twelve cusps, all assigned: every   *)
(* index 0..11 holds a number, and every entry, the midheaven at index 9    *)
(* included, lies in [0, 360).                                              *)
C25_AllCuspsAssigned ==
    (InPlacidus /\ pc = "returned") =>
        \A k \in 1..12 : IsNumber(ret.houses[k]) /\ InCircle(ret.houses[k])

\* the cusp opposite: cusp + 180, modulo 360
OppositeCusp(cusp) == Houses_normalizeAngle(JsAdd(cusp, Num(180)))

\* the axis cusps: ascendant, IC, descendant, MC
AxisCusps == {1, 4, 7, 10}

\* no intermediate step writes an axis cusp that was already assigned
C26_AxisKept ==
    [][pc = "intermediate" => \A k \in AxisCusps : houses'[k] = houses[k]]_vars

(* C26: in the returned array the axis cusps are opposite: cusp 4 is cusp   *)
(* 10 plus 180 modulo 360, and cusp 7 is cusp 1 plus 180 modulo 360; no     *)
(* intermediate step has overwritten an axis cusp.                          *)
C26_AxesOpposite ==
    (InPlacidus /\ pc = "returned") =>
        /\ ret.houses[4] = OppositeCusp(ret.houses[10])
        /\ ret.houses[7] = OppositeCusp(ret.houses[1])
        /\ ret.houses[1] = ascendantCusp
        /\ ret.houses[7] = OppositeCusp(ascendantCusp)

-----------------------------------------------------------------------------
(* Claims about calculateAllTransits as a transformation                    *)

\* the fields of a natal position that projection carries over
SameBody(natal, transit) ==
    /\ transit.planet = natal.planet
    /\ transit.latitude = natal.latitude
    /\ transit.speed = natal.speed
    /\ transit.isRetrograde = natal.isRetrograde

\* the entries built from the entries of planets: same keys in the same order,
\* the ascendant's entry as it was, each other body carried over
TransitsOf(planets, entries) ==
    /\ Len(entries) = Len(planets)
    /\ \A k \in 1..Len(planets) :
          /\ entries[k].key = planets[k].key
          /\ IF planets[k].key = "ascendant"
             THEN entries[k].value = planets[k].value
             ELSE SameBody(planets[k].value, entries[k].value)

(* C27: calculateAllTransits is a pure transformation: no step of it        *)
(* changes the birth chart or a natal position it was given, and what it    *)
(* returns has an entry for exactly the keys of birthChart.planets, the     *)
(* 'ascendant' entry unchanged, each projected body with its planet,        *)
(* latitude, speed and isRetrograde.                                        *)
C27_AllTransitsPure ==
    [][(InAllTransits /\ pc = "transits") =>
          /\ call' = call
          /\ pc' = "returned" => TransitsOf(call.args.birthChart.planets, ret'.transits)]_vars

\* a chart has been projected: rahu has moved and the moon keeps its latitude
C27_Witness ==
    /\ InAllTransits
    /\ pc = "returned"
    /\ \E k \in 1..Len(ret.transits) :
          /\ ret.transits[k].key = "rahu"
          /\ ret.transits[k].value.longitude # call.args.birthChart.planets[k].value.longitude
          /\ ret.transits[k].value.isRetrograde
    /\ \E k \in 1..Len(ret.transits) :
          /\ ret.transits[k].key = "moon"
          /\ ret.transits[k].value.latitude = Num(5)
    /\ \E k \in 1..Len(ret.transits) : ret.transits[k].key = "ascendant"

-----------------------------------------------------------------------------
(* Claims about aspects across the 0/360 wrap                               *)

(* C28: aspect detection is complete across the 0/360 wrap: for longitudes  *)
(* in [0, 360), whenever the smaller angle between the two, as              *)
(* AstrologyCalculator.calculateAspect computes it, is within maxOrb of a   *)
(* canonical angle, TransitCalculator.calculateAspect reports an aspect;    *)
(* two positions isConjunction accepts are reported as a conjunction; 359   *)
(* and 1 are a conjunction with orb 2, and 0 and 240 are a trine.           *)
C28_AspectComplete ==
    (/\ InAspect
     /\ InCircle(call.args.pos1.longitude)
     /\ InCircle(call.args.pos2.longitude)) =>
        LET smaller == Astrology_calculateAspect(call.args.pos1, call.args.pos2)
        IN  /\ (\E k \in 1..5 :
                    RLe(RAbs(RSub(smaller, Num(CanonicalAngles[k]))), Num(call.args.maxOrb)))
                    => ret.aspect # Null
            /\ isConjunction(call.args.pos1, call.args.pos2, call.args.maxOrb)
                    => (ret.aspect # Null /\ ret.aspect.type = "conjunction")
            /\ (call.args.pos1.longitude = Num(359) /\ call.args.pos2.longitude = Num(1))
                    => ret.aspect = [type |-> "conjunction", orb |-> Num(2)]
            /\ (call.args.pos1.longitude = Num(0) /\ call.args.pos2.longitude = Num(240))
                    => (ret.aspect # Null /\ ret.aspect.type = "trine")

-----------------------------------------------------------------------------
(* Claims about the direction of a projection                               *)

(* C29: transit projection is direction-aware and reversible: projecting a  *)
(* position from t0 to t1 and the result back from t1 to t0 returns the     *)
(* original longitude, and projecting to a date d days before the birth     *)
(* yields normalize(birthLongitude - motion * d), not the longitude of d    *)
(* days after.                                                              *)
C29_ProjectionReversible ==
    call.fn = "calculateTransitPosition" =>
        LET natal == call.args.birthPosition
            t0 == call.args.birthDate
            t1 == call.args.transitDate
            back == calculateTransitPosition(ret.position, t0, t1)
            d == MathRound(Rat(t0 - t1, oneDay))
        IN  /\ back.longitude = natal.longitude
            /\ t1 < t0 =>
                  ret.position.longitude =
                      Astrology_normalizeAngle(
                          RSub(natal.longitude, RMul(DAILY_MOTION[natal.planet], Num(d))))

====
